---- MODULE Spec2Model ----
(***************************************************************************)
(* Model of src/preprocess.py: main() as a straight-line pipeline over one *)
(* DataFrame df.  Each commented section of main() is one action; pc names *)
(* the section about to run.  The input parquet file, the outcome of each  *)
(* metadata access and every read issued against the file are part of the  *)
(* state.                                                                  *)
(*                                                                         *)
(* Cells are tagged values:                                                *)
(*   [k |-> "na"]                 null / NaN / NaT / <NA> / None           *)
(*   [k |-> "num", v |-> n]       a number n (integer valued)              *)
(*   [k |-> "str", s |-> t]       a string t                               *)
(*   [k |-> "text"]               a string that does not parse as a time   *)
(*   [k |-> "timetext", t |-> t]  a string that parses as the instant t    *)
(*   [k |-> "f32", m |-> m, e |-> e]  the float32 value m / 2^e            *)
(*   [k |-> "int64_iNaT_div_1e9"] the int64 value -9223372037              *)
(* Instants are whole seconds since the epoch.                             *)
(***************************************************************************)
EXTENDS Integers, Sequences, FiniteSets, TLC

VARIABLES pc, file, io, all_cols, columns, df, reads, out, err

vars == <<pc, file, io, all_cols, columns, df, reads, out, err>>

-----------------------------------------------------------------------------
(* Bounds of the model *)

MaxRows == 2
MaxTime == 2
MaxAmount == 1

(* An instant on the second day: 1970-01-02 01:01:00 *)
LateInstant == 90060

-----------------------------------------------------------------------------
(* Module-level names of preprocess.py *)

TARGET == "total_amount"

LEAKAGE_COLS ==
  {"fare_amount", "extra", "mta_tax", "tip_amount", "tolls_amount",
   "improvement_surcharge", "congestion_surcharge", "airport_fee"}

DATETIME_COLS == {"tpep_pickup_datetime", "tpep_dropoff_datetime"}

LEGACY_COLS == {"pickup_datetime", "dropoff_datetime"}

CATEGORY_COLS == {"payment_type", "vendor_id", "rate_code"}

needed ==
  {TARGET, "trip_distance", "store_and_fwd_flag",
   "payment_type", "vendor_id", "rate_code"}
  \cup DATETIME_COLS \cup LEGACY_COLS \cup LEAKAGE_COLS

(* A column the combined file carries and main() never uses. *)
UNUSED_COLS == {"passenger_count"}

-----------------------------------------------------------------------------
(* Cells *)

NA == [k |-> "na"]
Num(n) == [k |-> "num", v |-> n]
Str(t) == [k |-> "str", s |-> t]
BadText == [k |-> "text"]
F32(mm, ee) == [k |-> "f32", m |-> mm, e |-> ee]
IntMinEpoch == [k |-> "int64_iNaT_div_1e9"]

notna(c) == c.k # "na"

isna(c) == c.k = "na"

(* A string holding the text of instant t, as an object column carries it. *)
TimeText(t) == [k |-> "timetext", t |-> t]

-----------------------------------------------------------------------------
(* pandas / numpy value functions used by main() *)

(* Series.dt.hour of the instant t (seconds since the epoch). *)
Hour(t) == (t \div 3600) % 24

(* Series.dt.dayofweek: Monday = 0; 1970-01-01 was a Thursday. *)
DayOfWeek(t) == ((t \div 86400) + 3) % 7

(* Series.dt.month: the civil month of the day holding instant t. *)
Month(t) ==
  LET z   == (t \div 86400) + 719468
      era == z \div 146097
      doe == z - era * 146097
      yoe == (doe - doe \div 1460 + doe \div 36524 - doe \div 146096) \div 365
      doy == doe - (365 * yoe + yoe \div 4 - yoe \div 100)
      mp  == (5 * doy + 2) \div 153
  IN  IF mp < 10 THEN mp + 3 ELSE mp - 9

(* pd.to_datetime(errors="coerce") on one cell: text of an instant parses,   *)
(* anything else that is not already an instant becomes NaT.                 *)
to_datetime(c) ==
  CASE c.k = "timetext" -> Num(c.t)
    [] c.k = "num"      -> c
    [] OTHER            -> NA

Abs(n) == IF n < 0 THEN -n ELSE n

RECURSIVE Pow2(_)
Pow2(n) == IF n = 0 THEN 1 ELSE 2 * Pow2(n - 1)

(* Number of bits of a float32 significand. *)
F32_MANT_BITS == 24

(* The least e >= 0 with a * 2^e >= d * 2^(F32_MANT_BITS-1), for 0 < a. *)
RECURSIVE F32Exp(_, _, _)
F32Exp(a, d, e) ==
  IF a * Pow2(e) >= d * Pow2(F32_MANT_BITS - 1) THEN e ELSE F32Exp(a, d, e + 1)

(* m / 2^e with the trailing zero bits of m removed. *)
RECURSIVE F32Norm(_, _)
F32Norm(m, e) ==
  IF e > 0 /\ m % 2 = 0 THEN F32Norm(m \div 2, e - 1) ELSE <<m, e>>

(* (n / d).astype("float32"): n / d rounded to the nearest value with a      *)
(* 24-bit significand, ties to even.  The float64 quotient in between keeps  *)
(* 29 more bits; for the divisor 60 the quotient's distance to a float32 tie *)
(* is a multiple of 1/30 of a unit in the last place, so rounding twice      *)
(* gives the same value.  Defined for |n| < d * 2^23.                        *)
F32Quot(n, d) ==
  IF n = 0 THEN F32(0, 0)
  ELSE LET a   == Abs(n)
           e   == F32Exp(a, d, 0)
           num == a * Pow2(e)
           q   == num \div d
           r   == num % d
           up  == (2 * r > d) \/ (2 * r = d /\ q % 2 = 1)
           me  == F32Norm(IF up THEN q + 1 ELSE q, e)
       IN  F32(IF n < 0 THEN -me[1] ELSE me[1], me[2])

(* Series >= 0 and Series > 0 on one cell; a comparison with a null is False *)
ge0(c) ==
  CASE c.k = "num" -> c.v >= 0
    [] c.k = "f32" -> c.m >= 0
    [] OTHER       -> FALSE

gt0(c) ==
  CASE c.k = "num" -> c.v > 0
    [] c.k = "f32" -> c.m > 0
    [] OTHER       -> FALSE

-----------------------------------------------------------------------------
(* DataFrame operations.  A frame is [cols, dtype, index, rows]: the column  *)
(* names, each column's dtype, the index labels of its rows (the input row   *)
(* positions) and the rows, each a function from column name to cell.        *)

EmptyFrame == [cols |-> {}, dtype |-> <<>>, index |-> <<>>, rows |-> <<>>]

(* df[c] = vals, a Series over the rows of d, with dtype ty *)
SetCol(d, c, ty, vals) ==
  [cols  |-> d.cols \cup {c},
   dtype |-> [x \in d.cols \cup {c} |-> IF x = c THEN ty ELSE d.dtype[x]],
   index |-> d.index,
   rows  |-> [i \in 1..Len(d.rows) |->
                [x \in d.cols \cup {c} |->
                   IF x = c THEN vals[i] ELSE d.rows[i][x]]]]

(* df.drop(columns=S, inplace=True) *)
DropCols(d, S) ==
  [cols  |-> d.cols \ S,
   dtype |-> [x \in d.cols \ S |-> d.dtype[x]],
   index |-> d.index,
   rows  |-> [i \in 1..Len(d.rows) |-> [x \in d.cols \ S |-> d.rows[i][x]]]]

(* df.loc[mask].copy(): the rows whose mask is True, in order, index kept *)
LocMask(d, mask) ==
  LET keep == SelectSeq([i \in 1..Len(d.rows) |-> i], LAMBDA i : mask[i])
  IN  [cols  |-> d.cols,
       dtype |-> d.dtype,
       index |-> [j \in 1..Len(keep) |-> d.index[keep[j]]],
       rows  |-> [j \in 1..Len(keep) |-> d.rows[keep[j]]]]

(* pd.api.types.is_datetime64_any_dtype *)
is_datetime64_any_dtype(ty) == ty = "datetime64[ns]"

(* pd.read_parquet(in_path, columns=cs) on a file holding every column of cs *)
ReadParquet(f, cs) ==
  [cols  |-> cs,
   dtype |-> [x \in cs |-> f.dtype[x]],
   index |-> [i \in 1..Len(f.rows) |-> i - 1],
   rows  |-> [i \in 1..Len(f.rows) |-> [x \in cs |-> f.rows[i][x]]]]

-----------------------------------------------------------------------------
(* Sections of main() as frame transformers *)

(* lines 72-74: parse the columns of S that are present and not datetime *)
RECURSIVE ParseCols(_, _)
ParseCols(d, S) ==
  IF S = {} THEN d
  ELSE LET c == CHOOSE x \in S : TRUE
           n == IF c \in d.cols /\ ~is_datetime64_any_dtype(d.dtype[c])
                THEN SetCol(d, c, "datetime64[ns]",
                            [i \in 1..Len(d.rows) |-> to_datetime(d.rows[i][c])])
                ELSE d
       IN  ParseCols(n, S \ {c})

(* dt.hour / dt.dayofweek / dt.month .astype("UInt8") of one cell *)
DtField(c, field) ==
  IF notna(c)
  THEN CASE field = "hour"      -> Num(Hour(c.v))
         [] field = "dayofweek" -> Num(DayOfWeek(c.v))
         [] field = "month"     -> Num(Month(c.v))
  ELSE NA

(* df[c].dt.<field>.astype("UInt8") as a Series *)
DtSeries(d, c, field) == [i \in 1..Len(d.rows) |-> DtField(d.rows[i][c], field)]

(* lines 78-82 *)
PickupFeatures(d) ==
  IF "tpep_pickup_datetime" \in d.cols
  THEN LET h == SetCol(d, "pickup_hour", "UInt8",
                       DtSeries(d, "tpep_pickup_datetime", "hour"))
           w == SetCol(h, "pickup_dayofweek", "UInt8",
                       DtSeries(h, "tpep_pickup_datetime", "dayofweek"))
       IN  SetCol(w, "pickup_month", "UInt8",
                  DtSeries(w, "tpep_pickup_datetime", "month"))
  ELSE d

(* Seconds in a minute: the divisor of line 86. *)
SECONDS_PER_MINUTE == 60

(* lines 85-86 on one row: (dropoff - pickup).total_seconds() / 60.0 as float32 *)
DurationCell(pick, drop) ==
  IF notna(pick) /\ notna(drop)
  THEN F32Quot(drop.v - pick.v, SECONDS_PER_MINUTE)
  ELSE NA

(* lines 84-86 *)
DurationFeature(d) ==
  IF "tpep_dropoff_datetime" \in d.cols /\ "tpep_pickup_datetime" \in d.cols
  THEN SetCol(d, "trip_duration_min", "float32",
              [i \in 1..Len(d.rows) |->
                 DurationCell(d.rows[i]["tpep_pickup_datetime"],
                              d.rows[i]["tpep_dropoff_datetime"])])
  ELSE d

DropDatetimeSkipped(d) == d

(* lines 88-91 *)
DropDatetime(d) == DropCols(d, DATETIME_COLS \cap d.cols)

FlagCellOtherAsZero(c) == IF c.k = "str" /\ c.s = "Y" THEN Num(1) ELSE Num(0)

(* line 95 on one cell: .map({"Y": 1, "N": 0}).astype("UInt8") *)
FlagCell(c) ==
  IF c.k = "str" /\ c.s = "Y" THEN Num(1)
  ELSE IF c.k = "str" /\ c.s = "N" THEN Num(0)
  ELSE NA

(* lines 93-95 *)
EncodeFlag(d) ==
  IF "store_and_fwd_flag" \in d.cols
  THEN SetCol(d, "store_and_fwd_flag", "UInt8",
              [i \in 1..Len(d.rows) |-> FlagCell(d.rows[i]["store_and_fwd_flag"])])
  ELSE d

MaskRowNoTarget(d, r) ==
  /\ \A c \in {"trip_duration_min", "pickup_hour", "pickup_dayofweek"} :
        c \in d.cols => notna(r[c])
  /\ ("trip_distance" \in d.cols =>
        notna(r["trip_distance"]) /\ ge0(r["trip_distance"]))
  /\ ("trip_duration_min" \in d.cols => gt0(r["trip_duration_min"]))

MaskRowDurationGe0(d, r) ==
  /\ (TARGET \in d.cols => notna(r[TARGET]) /\ ge0(r[TARGET]))
  /\ \A c \in {"trip_duration_min", "pickup_hour", "pickup_dayofweek"} :
        c \in d.cols => notna(r[c])
  /\ ("trip_distance" \in d.cols =>
        notna(r["trip_distance"]) /\ ge0(r["trip_distance"]))
  /\ ("trip_duration_min" \in d.cols => ge0(r["trip_duration_min"]))

MaskRowNoDistance(d, r) ==
  /\ (TARGET \in d.cols => notna(r[TARGET]) /\ ge0(r[TARGET]))
  /\ \A c \in {"trip_duration_min", "pickup_hour", "pickup_dayofweek"} :
        c \in d.cols => notna(r[c])
  /\ ("trip_duration_min" \in d.cols => gt0(r["trip_duration_min"]))

(* lines 98-113 on one row: the combined mask *)
MaskRow(d, r) ==
  /\ (TARGET \in d.cols => notna(r[TARGET]) /\ ge0(r[TARGET]))
  /\ \A c \in {"trip_duration_min", "pickup_hour", "pickup_dayofweek"} :
        c \in d.cols => notna(r[c])
  /\ ("trip_distance" \in d.cols =>
        notna(r["trip_distance"]) /\ ge0(r["trip_distance"]))
  /\ ("trip_duration_min" \in d.cols => gt0(r["trip_duration_min"]))

(* lines 97-115 *)
FilterRows(d) == LocMask(d, [i \in 1..Len(d.rows) |-> MaskRow(d, d.rows[i])])

(* line 125-126 on one cell: view("int64") // 10**9; NaT views as the int64  *)
(* minimum -9223372036854775808, whose floor quotient is -9223372037.        *)
EpochCell(c) == IF notna(c) THEN Num(c.v) ELSE IntMinEpoch

(* lines 119-129 for one legacy column c *)
LegacyOne(d, c) ==
  IF c \in d.cols
  THEN LET p == ParseCols(d, {c})
           e == SetCol(p, c \o "_epoch", "int64",
                       [i \in 1..Len(p.rows) |-> EpochCell(p.rows[i][c])])
           h == SetCol(e, c \o "_hour", "UInt8", DtSeries(e, c, "hour"))
       IN  SetCol(h, c \o "_dow", "UInt8", DtSeries(h, c, "dayofweek"))
  ELSE d

(* lines 117-132 *)
LegacyDatetime(d) ==
  LegacyOne(LegacyOne(d, "pickup_datetime"), "dropoff_datetime")

(* lines 134-137 *)
Categoricals(d) ==
  [d EXCEPT !.dtype = [x \in d.cols |->
     IF x \in CATEGORY_COLS THEN "category" ELSE d.dtype[x]]]

(* pd.api.types.is_float_dtype / is_integer_dtype *)
is_float_dtype(ty) == ty \in {"float64", "float32"}
is_integer_dtype(ty) == ty \in {"int64", "int8", "UInt8", "Int8"}

(* lines 17-26: pd.to_numeric(s, downcast=...) per numeric column.  Every    *)
(* float64 cell of the model is integer valued and below 2^24, so it is its  *)
(* own float32 value; an integer column narrows to 8 bits unless it holds    *)
(* the int64 value -9223372037.                                              *)
downcast_numeric(d) ==
  [d EXCEPT !.dtype = [x \in d.cols |->
     IF is_float_dtype(d.dtype[x]) THEN "float32"
     ELSE IF is_integer_dtype(d.dtype[x])
          THEN IF \E i \in 1..Len(d.rows) : d.rows[i][x] = IntMinEpoch
               THEN "int64"
               ELSE IF d.dtype[x] \in {"UInt8", "Int8"} THEN "Int8" ELSE "int8"
          ELSE d.dtype[x]]]

-----------------------------------------------------------------------------
(* The input file and the initial states *)

TIME_COLS == DATETIME_COLS \cup LEGACY_COLS

CoreCols == {TARGET, "trip_distance", "store_and_fwd_flag"} \cup TIME_COLS

NoFile == [cols |-> {"<absent>"}, rows |-> <<>>]

(* The parquet file holding the rows rs over the columns cs.  A timestamp    *)
(* column holding unparsable text is an object column of strings; otherwise  *)
(* it is a datetime64[ns] column.                                            *)
MkFile(cs, rs) ==
  LET textual(c) == c \in TIME_COLS /\ \E i \in 1..Len(rs) : rs[i][c].k = "text"
  IN  [cols  |-> cs,
       dtype |-> [c \in cs |->
                    IF c \in TIME_COLS
                    THEN IF textual(c) THEN "object" ELSE "datetime64[ns]"
                    ELSE IF c \in CATEGORY_COLS \cup {"store_and_fwd_flag"}
                         THEN "object" ELSE "float64"],
       rows  |-> [i \in 1..Len(rs) |->
                    [c \in cs |->
                       IF textual(c) /\ rs[i][c].k = "num"
                       THEN TimeText(rs[i][c].v) ELSE rs[i][c]]]]

AllFileCols == needed \cup UNUSED_COLS

AmountVals == {NA} \cup {Num(x) : x \in -1..MaxAmount}
TimeVals == {NA, BadText} \cup {Num(t) : t \in (0..MaxTime) \cup {LateInstant}}
FlagVals == {NA, Str("Y"), Str("N"), Str("X")}

(* A row over every column a file may hold, from the cells that matter. *)
Row(tgt, dist, flag, pick, drop, lpick, ldrop) ==
  [c \in AllFileCols |->
     CASE c = TARGET                  -> tgt
       [] c = "trip_distance"         -> dist
       [] c = "store_and_fwd_flag"    -> flag
       [] c = "tpep_pickup_datetime"  -> pick
       [] c = "tpep_dropoff_datetime" -> drop
       [] c = "pickup_datetime"       -> lpick
       [] c = "dropoff_datetime"      -> ldrop
       [] c \in CATEGORY_COLS         -> Str("CSH")
       [] OTHER                       -> Num(1)]

Restrict(rs, cs) == [i \in 1..Len(rs) |-> [c \in cs |-> rs[i][c]]]

Dom(c, cs, vals) == IF c \in cs THEN vals ELSE {NA}

SampleRows ==
  << Row(Num(0), Num(0), Str("Y"), Num(0), Num(MaxTime), Num(0), Num(MaxTime)),
     Row(Num(0), Num(0), Str("X"), Num(0), Num(MaxTime), NA, BadText) >>

CatChoices == {{}, {"payment_type"}, {"vendor_id", "rate_code"}, CATEGORY_COLS}
LeakChoices == {{}, {"fare_amount"}, LEAKAGE_COLS}

Start(f, o) ==
  /\ pc = "probe_all"
  /\ file = f
  /\ io = o
  /\ all_cols = {}
  /\ columns = {}
  /\ df = EmptyFrame
  /\ reads = <<>>
  /\ out = NoFile
  /\ err = "none"

IOOutcomes == [all : BOOLEAN, meta : BOOLEAN]
IOFine == [all |-> TRUE, meta |-> TRUE]

(* Every schema, each access failing or not, two fixed rows. *)
InitSchema ==
  \E core \in SUBSET CoreCols, cats \in CatChoices, leak \in LeakChoices,
     other \in SUBSET UNUSED_COLS, o \in IOOutcomes :
       LET cs == core \cup cats \cup leak \cup other
       IN  Start(MkFile(cs, Restrict(SampleRows, cs)), o)

(* Every schema over the filtered columns, one row of every value. *)
InitRow ==
  \E core \in SUBSET (CoreCols \ {"dropoff_datetime"}) :
    \E tgt \in Dom(TARGET, core, AmountVals),
       dist \in Dom("trip_distance", core, AmountVals),
       flag \in Dom("store_and_fwd_flag", core, FlagVals),
       pick \in Dom("tpep_pickup_datetime", core, TimeVals),
       drop \in Dom("tpep_dropoff_datetime", core, TimeVals),
       lpick \in Dom("pickup_datetime", core, {NA, BadText, Num(LateInstant)}) :
         Start(MkFile(core,
                      Restrict(<<Row(tgt, dist, flag, pick, drop, lpick, NA)>>,
                               core)),
               IOFine)

PoolRows ==
  { Row(tgt, dist, flag, Num(0), drop, Num(0), NA) :
      tgt \in {NA, Num(0)}, dist \in {Num(-1), Num(0)},
      flag \in {NA, Str("Y")}, drop \in {Num(0), Num(1)} }

(* The full schema, every table of up to MaxRows rows of the pool. *)
InitTable ==
  \E n \in 0..MaxRows :
    \E rs \in [1..n -> PoolRows] :
      LET cs == CoreCols \cup CATEGORY_COLS
      IN  Start(MkFile(cs, Restrict(rs, cs)), IOFine)

Init == InitSchema \/ InitRow \/ InitTable

-----------------------------------------------------------------------------
(* The steps of main() *)

(* One access to the input file: the section issuing it, the call, the       *)
(* columns whose data it asks for and whether row data is loaded.            *)
Read(op, cs, data) == [step |-> pc, op |-> op, cols |-> cs, rowdata |-> data]

Abort(at) ==
  /\ pc' = "aborted"
  /\ err' = at

(* line 36: pd.read_parquet(in_path, columns=None).columns; every column of  *)
(* the file is read, rows included.  Not inside the try of line 56.          *)
ProbeAllCols ==
  /\ pc = "probe_all"
  /\ reads' = Append(reads, Read("pd.read_parquet", file.cols, TRUE))
  /\ IF io.all
     THEN /\ all_cols' = file.cols
          /\ pc' = "probe"
          /\ err' = err
     ELSE /\ Abort("probe_all")
          /\ all_cols' = all_cols
  /\ UNCHANGED <<file, io, columns, df, out>>

ProbeSchemaNoIntersection ==
  /\ pc = "probe"
  /\ io.meta
  /\ reads' = Append(reads, Read("pq.ParquetFile", {}, FALSE))
  /\ columns' = needed
  /\ pc' = "load"
  /\ UNCHANGED <<file, io, all_cols, df, out, err>>

(* lines 56-60: the footer is read, no column data *)
ProbeSchema ==
  /\ pc = "probe"
  /\ io.meta
  /\ reads' = Append(reads, Read("pq.ParquetFile", {}, FALSE))
  /\ columns' = needed \cap file.cols
  /\ pc' = "load"
  /\ UNCHANGED <<file, io, all_cols, df, out, err>>

(* lines 61-63: except Exception *)
ProbeFallback ==
  /\ pc = "probe"
  /\ ~io.meta
  /\ reads' = Append(reads, Read("pq.ParquetFile", {}, FALSE))
  /\ columns' = needed
  /\ pc' = "load"
  /\ UNCHANGED <<file, io, all_cols, df, out, err>>

PruneNothing(cs) == cs

(* line 66 *)
Prune(cs) == cs \ LEAKAGE_COLS

(* lines 66-68, every requested column in the file *)
Load ==
  /\ pc = "load"
  /\ Prune(columns) \subseteq file.cols
  /\ columns' = Prune(columns)
  /\ reads' = Append(reads, Read("pd.read_parquet", Prune(columns), TRUE))
  /\ df' = ReadParquet(file, Prune(columns))
  /\ pc' = "parse"
  /\ UNCHANGED <<file, io, all_cols, out, err>>

(* lines 66-68, a requested column missing from the file: read_parquet raises *)
LoadMissing ==
  /\ pc = "load"
  /\ ~(Prune(columns) \subseteq file.cols)
  /\ columns' = Prune(columns)
  /\ reads' = Append(reads, Read("pd.read_parquet", Prune(columns), TRUE))
  /\ Abort("load")
  /\ UNCHANGED <<file, io, all_cols, df, out>>

(* lines 71-74 *)
ParseDatetimes ==
  /\ pc = "parse"
  /\ df' = ParseCols(df, DATETIME_COLS)
  /\ pc' = "features"
  /\ UNCHANGED <<file, io, all_cols, columns, reads, out, err>>

(* lines 76-86 *)
FeatureEngineering ==
  /\ pc = "features"
  /\ df' = DurationFeature(PickupFeatures(df))
  /\ pc' = "drop_dt"
  /\ UNCHANGED <<file, io, all_cols, columns, reads, out, err>>

(* lines 88-91 *)
DropRawDatetime ==
  /\ pc = "drop_dt"
  /\ df' = DropDatetime(df)
  /\ pc' = "flag"
  /\ UNCHANGED <<file, io, all_cols, columns, reads, out, err>>

(* lines 93-95 *)
EncodeStoreAndFwd ==
  /\ pc = "flag"
  /\ df' = EncodeFlag(df)
  /\ pc' = "filter"
  /\ UNCHANGED <<file, io, all_cols, columns, reads, out, err>>

(* lines 97-115 *)
Filter ==
  /\ pc = "filter"
  /\ df' = FilterRows(df)
  /\ pc' = "legacy"
  /\ UNCHANGED <<file, io, all_cols, columns, reads, out, err>>

(* lines 117-132 *)
Legacy ==
  /\ pc = "legacy"
  /\ df' = LegacyDatetime(df)
  /\ pc' = "category"
  /\ UNCHANGED <<file, io, all_cols, columns, reads, out, err>>

(* lines 134-137 *)
ToCategory ==
  /\ pc = "category"
  /\ df' = Categoricals(df)
  /\ pc' = "downcast"
  /\ UNCHANGED <<file, io, all_cols, columns, reads, out, err>>

(* lines 139-140 *)
Downcast ==
  /\ pc = "downcast"
  /\ df' = downcast_numeric(df)
  /\ pc' = "write"
  /\ UNCHANGED <<file, io, all_cols, columns, reads, out, err>>

(* lines 147-153: df.to_parquet(out_path, index=False, ...) *)
Write ==
  /\ pc = "write"
  /\ out' = [cols |-> df.cols, rows |-> df.rows]
  /\ pc' = "done"
  /\ UNCHANGED <<file, io, all_cols, columns, df, reads, err>>

Next ==
  \/ ProbeAllCols
  \/ ProbeSchema
  \/ ProbeFallback
  \/ Load
  \/ LoadMissing
  \/ ParseDatetimes
  \/ FeatureEngineering
  \/ DropRawDatetime
  \/ EncodeStoreAndFwd
  \/ Filter
  \/ Legacy
  \/ ToCategory
  \/ Downcast
  \/ Write

Spec == Init /\ [][Next]_vars

-----------------------------------------------------------------------------
(* Properties.  The input row behind the j-th row of df is found through the *)
(* index label df keeps; validity is stated on the input file's own cells.   *)

Finished == pc = "done"
AfterFilter == pc \in {"legacy", "category", "downcast", "write", "done"}
AfterFlag == pc = "filter" \/ AfterFilter

InputRow(j) == file.rows[df.index[j] + 1]
OutRows == 1..Len(out.rows)

Parses(c) == c.k \in {"num", "timetext"}
InstantOf(c) == IF c.k = "num" THEN c.v ELSE c.t
NonNegative(c) == c.k = "num" /\ c.v >= 0

HasBothPrimary == DATETIME_COLS \subseteq file.cols

(* dropoff - pickup in seconds of an input row with both instants *)
SecondsOf(r) ==
  InstantOf(r["tpep_dropoff_datetime"]) - InstantOf(r["tpep_pickup_datetime"])

PositiveDuration(r) ==
  /\ Parses(r["tpep_pickup_datetime"])
  /\ Parses(r["tpep_dropoff_datetime"])
  /\ SecondsOf(r) > 0

(* Every validity predicate of the columns the file holds, on an input row *)
ValidInput(r) ==
  /\ (TARGET \in file.cols => NonNegative(r[TARGET]))
  /\ ("trip_distance" \in file.cols => NonNegative(r["trip_distance"]))
  /\ ("tpep_pickup_datetime" \in file.cols => Parses(r["tpep_pickup_datetime"]))
  /\ (HasBothPrimary => PositiveDuration(r))

ValidPositions ==
  SelectSeq([i \in 1..Len(file.rows) |-> i - 1],
            LAMBDA p : ValidInput(file.rows[p + 1]))

(* C1: after the Loader and at every later stage, Writer included, the table *)
(* holds no column of the leakage set, whatever columns the file holds.      *)
C1_NoLeakageColumn ==
  /\ df.cols \cap LEAKAGE_COLS = {}
  /\ out.cols \cap LEAKAGE_COLS = {}

C1_Witness ==
  /\ Finished
  /\ LEAKAGE_COLS \subseteq file.cols
  /\ Len(out.rows) > 0

(* C2 as stated: the table handed to the Writer holds no raw timestamp       *)
(* column, neither of the primary pair nor of the legacy pair.               *)
C2_NoRawTimestamp ==
  Finished => out.cols \cap (DATETIME_COLS \cup LEGACY_COLS) = {}

(* C2 amended: the written table holds no column of the primary pair, and    *)
(* holds exactly the legacy timestamp columns the input file holds.          *)
C2_PrimaryDroppedLegacyKept ==
  pc \in {"write", "done"} =>
    /\ df.cols \cap DATETIME_COLS = {}
    /\ df.cols \cap LEGACY_COLS = file.cols \cap LEGACY_COLS
    /\ (Finished => out.cols = df.cols)

C2_Witness ==
  /\ Finished
  /\ DATETIME_COLS \subseteq file.cols
  /\ LEGACY_COLS \subseteq file.cols
  /\ Len(out.rows) > 0

(* C3: with the target in the input, every written row has a non-null target *)
(* >= 0, and it comes from an input row whose target is non-null and >= 0.   *)
C3_TargetNonNegative ==
  (Finished /\ TARGET \in file.cols) =>
    \A j \in OutRows :
      /\ notna(out.rows[j][TARGET])
      /\ out.rows[j][TARGET].k = "num"
      /\ out.rows[j][TARGET].v >= 0
      /\ NonNegative(InputRow(j)[TARGET])

C3_Witness ==
  /\ Finished
  /\ TARGET \in file.cols
  /\ \E i \in 1..Len(file.rows) : isna(file.rows[i][TARGET])
  /\ Len(out.rows) > 0

DurationOf(j) == out.rows[j]["trip_duration_min"]

(* C4 as stated: with both primary timestamps in the input, every written    *)
(* row has a non-null trip_duration_min > 0 equal to (dropoff - pickup) in   *)
(* minutes of its input row, whose dropoff is later than its pickup and      *)
(* whose instants both parse.                                                *)
C4_DurationExact ==
  (Finished /\ HasBothPrimary) =>
    \A j \in OutRows :
      /\ DurationOf(j).k = "f32"
      /\ DurationOf(j).m > 0
      /\ PositiveDuration(InputRow(j))
      /\ DurationOf(j).m * SECONDS_PER_MINUTE
           = SecondsOf(InputRow(j)) * Pow2(DurationOf(j).e)

(* C4 amended: the same, the value being (dropoff - pickup) in minutes       *)
(* rounded to float32: a 24-bit significand within a relative error of 2^-24 *)
(* of the exact quotient.                                                    *)
C4_DurationFloat32 ==
  (Finished /\ HasBothPrimary) =>
    \A j \in OutRows :
      /\ DurationOf(j).k = "f32"
      /\ DurationOf(j).m > 0
      /\ DurationOf(j).m <= Pow2(F32_MANT_BITS)
      /\ PositiveDuration(InputRow(j))
      /\ LET exact == SecondsOf(InputRow(j)) * Pow2(DurationOf(j).e)
             got   == DurationOf(j).m * SECONDS_PER_MINUTE
         IN  Abs(got - exact) * Pow2(F32_MANT_BITS) <= exact

C4_Witness ==
  /\ Finished
  /\ HasBothPrimary
  /\ \E i \in 1..Len(file.rows) :
        /\ Parses(file.rows[i]["tpep_pickup_datetime"])
        /\ Parses(file.rows[i]["tpep_dropoff_datetime"])
        /\ SecondsOf(file.rows[i]) <= 0
  /\ \E j \in OutRows : SecondsOf(InputRow(j)) = 1

(* C5: the Record Filter keeps exactly the input rows that satisfy every     *)
(* validity predicate of the columns present, each once, in input order, and *)
(* that is the table the Writer gets.                                        *)
C5_FilterExact ==
  AfterFilter =>
    /\ df.index = ValidPositions
    /\ Len(df.rows) = Len(df.index)
    /\ Len(df.rows) <= Len(file.rows)
    /\ \A j \in 1..Len(df.rows) :
         \A c \in {TARGET, "trip_distance"} \cap file.cols :
            df.rows[j][c] = InputRow(j)[c]
    /\ (Finished => out.rows = df.rows)

C5_Witness ==
  /\ Finished
  /\ Len(file.rows) >= 2
  /\ df.index = <<1>>
  /\ out.rows = df.rows

DerivedOf(c) == {c \o "_epoch", c \o "_hour", c \o "_dow"}

ExpectedSchema ==
  (((needed \ LEAKAGE_COLS) \ DATETIME_COLS) \cap file.cols)
  \cup (IF "tpep_pickup_datetime" \in file.cols
        THEN {"pickup_hour", "pickup_dayofweek", "pickup_month"} ELSE {})
  \cup (IF HasBothPrimary THEN {"trip_duration_min"} ELSE {})
  \cup UNION {DerivedOf(c) : c \in LEGACY_COLS \cap file.cols}

(* The sections of main(), in order; each runs unconditionally when reached, *)
(* the load provided the file holds every column it asks for.                *)
Sections ==
  <<"probe_all", "probe", "load", "parse", "features", "drop_dt", "flag",
    "filter", "legacy", "category", "downcast", "write", "done">>

(* C6: with a readable file, whatever subset of the columns it holds, the    *)
(* run never aborts and is at a section that can run until the Writer has    *)
(* run (the load asks for no column the file lacks), and the Writer writes   *)
(* the present needed columns plus the columns derived from present sources  *)
(* only.                                                                     *)
C6_AbsenceNotFatal ==
  io = IOFine =>
    /\ pc # "aborted"
    /\ \E k \in 1..Len(Sections) : pc = Sections[k]
    /\ (pc = "load" => (columns \ LEAKAGE_COLS) \subseteq file.cols)
    /\ (pc = "write" => df.cols = ExpectedSchema)
    /\ (Finished => out.cols = ExpectedSchema)

C6_Witness ==
  /\ Finished
  /\ io = IOFine
  /\ TARGET \notin file.cols
  /\ "pickup_datetime" \notin file.cols
  /\ "tpep_dropoff_datetime" \notin file.cols
  /\ "tpep_pickup_datetime" \in file.cols
  /\ "pickup_hour" \in out.cols
  /\ Len(out.rows) > 0

(* C7: every read issued against the input file asks only for columns of    *)
(* (needed minus leakage) that the file holds, and the schema probes load no *)
(* row data.                                                                 *)
C7_OnlyNeededColumnsRead ==
  \A i \in 1..Len(reads) :
    /\ reads[i].cols \subseteq ((needed \ LEAKAGE_COLS) \cap file.cols)
    /\ (reads[i].step \in {"probe_all", "probe"} => ~reads[i].rowdata)

(* C8: a null or unparsable timestamp never aborts the run and is a null in  *)
(* every column derived from it: pickup_hour, pickup_dayofweek, pickup_month *)
(* and trip_duration_min for the primary pair; <col>_epoch, <col>_hour and   *)
(* <col>_dow for a legacy column.                                            *)
C8_BadTimestampIsNull ==
  /\ (io = IOFine => pc # "aborted")
  /\ (pc = "drop_dt" /\ "tpep_pickup_datetime" \in file.cols =>
        \A j \in 1..Len(df.rows) :
          /\ ~Parses(InputRow(j)["tpep_pickup_datetime"]) =>
                /\ isna(df.rows[j]["pickup_hour"])
                /\ isna(df.rows[j]["pickup_dayofweek"])
                /\ isna(df.rows[j]["pickup_month"])
          /\ (HasBothPrimary /\ ~PositiveDuration(InputRow(j))
                /\ ~(Parses(InputRow(j)["tpep_pickup_datetime"])
                     /\ Parses(InputRow(j)["tpep_dropoff_datetime"]))) =>
                isna(df.rows[j]["trip_duration_min"]))
  /\ (Finished =>
        \A j \in OutRows : \A c \in LEGACY_COLS \cap file.cols :
          ~Parses(InputRow(j)[c]) =>
             \A x \in DerivedOf(c) : isna(out.rows[j][x]))

(* C9: store_and_fwd_flag maps "Y" to 1, "N" to 0 and anything else, null    *)
(* included, to null; the flag is no filter predicate: an input row is       *)
(* written if and only if it satisfies the other validity predicates.        *)
C9_FlagMapping ==
  /\ (AfterFlag /\ "store_and_fwd_flag" \in file.cols =>
        \A j \in 1..Len(df.rows) :
          LET in == InputRow(j)["store_and_fwd_flag"]
              to == df.rows[j]["store_and_fwd_flag"]
          IN  IF in = Str("Y") THEN to = Num(1)
              ELSE IF in = Str("N") THEN to = Num(0)
              ELSE isna(to))
  /\ (Finished =>
        /\ out.rows = df.rows
        /\ \A i \in 1..Len(file.rows) :
             (\E j \in OutRows : df.index[j] = i - 1) <=> ValidInput(file.rows[i]))

C9_Witness ==
  /\ Finished
  /\ \E j \in OutRows :
        /\ InputRow(j)["store_and_fwd_flag"] = Str("X")
        /\ isna(out.rows[j]["store_and_fwd_flag"])
  /\ \E j \in OutRows :
        /\ InputRow(j)["store_and_fwd_flag"] = Str("Y")
        /\ out.rows[j]["store_and_fwd_flag"] = Num(1)

(* C10: when the file's column metadata cannot be read the run does not      *)
(* abort while probing: it can abort only at the column-restricted load; and *)
(* an aborted run has written nothing.                                       *)
C10_MetadataFailureFallsBack ==
  /\ ((~io.all /\ ~io.meta) => (pc = "aborted" => err = "load"))
  /\ (pc = "aborted" => out = NoFile)

====
